---- MODULE Spec2Model ----
(***************************************************************************)
(* Model of update-books.js: the help check at the bottom of the script,   *)
(* main(), and the helpers it calls.  Text is a sequence of one-character  *)
(* strings, so that trimming, joining and the shell's word splitting are   *)
(* computed rather than assumed.                                           *)
(***************************************************************************)
EXTENDS Integers, Sequences, FiniteSets, TLC

VARIABLES
    argv,              \* process.argv: node path, script path, then the arguments
    repoValid,         \* environment: the working directory is a git repository
    booksExists,       \* environment: books.md exists in the working directory
    pc,                \* position of the (single-threaded) script
    exitCode,          \* exit status once pc = "exited", -1 before
    out,               \* lines the script itself writes to the console
    cmdLog,            \* every execSync call, in order, with its outcome
    booksChecked,      \* fs.existsSync('books.md') has been evaluated
    hasPendingChanges, \* <<>> until hasChanges() returned, then <<result>>
    commitMessage,     \* const commitMessage of main(), <<>> until assigned
    stepIdx,           \* index of the for-of loop over steps, 0 outside the loop
    stepResults,       \* what runCommand returned for each step run so far
    repo               \* environment: what git did to the repository in this run

vars == <<argv, repoValid, booksExists, pc, exitCode, out, cmdLog, booksChecked,
          hasPendingChanges, commitMessage, stepIdx, stepResults, repo>>

----------------------------------------------------------------------------
(* Bounds and input pools *)

MaxArgs == 2

NodePath == <<"n", "o", "d", "e">>
ScriptPath == <<"u", "p", "d", "a", "t", "e", "-", "b", "o", "o", "k", "s", ".", "j", "s">>

\* Arguments a user can type: a word, a phrase passed as one argument, a
\* quoted word, a word with a stray quote, the empty argument, the help flags.
ArgPool ==
    { <<"a">>,
      <<"a", " ", "b">>,
      <<"\"", "a", "\"">>,
      <<"a", "\"">>,
      << >>,
      <<"-", "h">>,
      <<"-", "-", "h", "e", "l", "p">> }

RECURSIVE SeqsUpTo(_, _)
SeqsUpTo(S, n) ==
    IF n = 0 THEN { << >> }
    ELSE LET shorter == SeqsUpTo(S, n - 1)
         IN  shorter \cup { Append(s, x) : s \in shorter, x \in S }

ArgLists == SeqsUpTo(ArgPool, MaxArgs)

\* Outputs of `git status --porcelain` that hasChanges() may read: nothing,
\* whitespace only, a modified tracked file, an untracked file.
StatusOutputs ==
    { << >>,
      <<"\n">>,
      <<" ", "M", " ", "b", "o", "o", "k", "s", ".", "m", "d", "\n">>,
      <<"?", "?", " ", "n", "o", "t", "e", "s", ".", "t", "x", "t", "\n">> }

\* Wall-clock readings as toLocaleDateString / toLocaleTimeString format them.
Dates ==
    { <<"A", "u", "g", " ", "1", "9", ",", " ", "2", "0", "2", "5">>,
      <<"N", "o", "v", " ", "3", ",", " ", "2", "0", "2", "6">> }

Times == { <<"0", "3", ":", "4", "5", " ", "P", "M">> }

----------------------------------------------------------------------------
(* String helpers of the JavaScript runtime *)

IsWhitespace(c) == c \in {" ", "\n", "\t", "\r"}

RECURSIVE TrimStart(_)
TrimStart(s) ==
    IF s = << >> THEN << >>
    ELSE IF IsWhitespace(Head(s)) THEN TrimStart(Tail(s))
    ELSE s

RECURSIVE TrimEnd(_)
TrimEnd(s) ==
    IF s = << >> THEN << >>
    ELSE IF IsWhitespace(s[Len(s)]) THEN TrimEnd(SubSeq(s, 1, Len(s) - 1))
    ELSE s

\* String.prototype.trim
Trim(s) == TrimEnd(TrimStart(s))

\* Array.prototype.includes
Includes(arr, x) == \E i \in 1..Len(arr) : arr[i] = x

\* Array.prototype.join
RECURSIVE Join(_, _)
Join(arr, sep) ==
    IF arr = << >> THEN << >>
    ELSE IF Len(arr) = 1 THEN arr[1]
    ELSE arr[1] \o sep \o Join(Tail(arr), sep)

----------------------------------------------------------------------------
(* The commands *)

GitRevParse == <<"g", "i", "t", " ", "r", "e", "v", "-", "p", "a", "r", "s", "e", " ", "-", "-", "g", "i", "t", "-", "d", "i", "r">>
GitStatus == <<"g", "i", "t", " ", "s", "t", "a", "t", "u", "s", " ", "-", "-", "p", "o", "r", "c", "e", "l", "a", "i", "n">>
GitAdd == <<"g", "i", "t", " ", "a", "d", "d", " ", ".">>
GitPush == <<"g", "i", "t", " ", "p", "u", "s", "h">>

\* `git commit -m "${commitMessage}"`
GitCommit(message) ==
    <<"g", "i", "t", " ", "c", "o", "m", "m", "i", "t", " ", "-", "m", " ", "\"">>
        \o message \o <<"\"">>

stepsPushBeforeCommit(message) ==
    << [command |-> GitAdd, description |-> "Adding changes to staging area"],
       [command |-> GitPush, description |-> "Pushing to GitHub"],
       [command |-> GitCommit(message), description |-> "Creating commit"] >>

\* const steps = [...] of main()
steps(message) ==
    << [command |-> GitAdd, description |-> "Adding changes to staging area"],
       [command |-> GitCommit(message), description |-> "Creating commit"],
       [command |-> GitPush, description |-> "Pushing to GitHub"] >>

\* const args = process.argv.slice(2)
args == SubSeq(argv, 3, Len(argv))

helpRequestedFirstOnly ==
    /\ Len(argv) >= 3
    /\ argv[3] \in { <<"-", "-", "h", "e", "l", "p">>, <<"-", "h">> }

\* The condition of the help check at the bottom of the script.
helpRequested ==
    Includes(argv, <<"-", "-", "h", "e", "l", "p">>) \/ Includes(argv, <<"-", "h">>)

\* getCommitMessage(), given the formatted wall-clock reading
getCommitMessage(date, time) ==
    IF Len(args) > 0 THEN Join(args, <<" ">>)
    ELSE <<"U", "p", "d", "a", "t", "e", " ", "b", "o", "o", "k", " ", "l", "i", "s", "t", " ", "-", " ">>
             \o date \o <<" ", "a", "t", " ">> \o time

----------------------------------------------------------------------------
(* execSync hands the command line to /bin/sh -c.  Of the shell's grammar   *)
(* the model covers blanks and double quotes, the only shell-significant   *)
(* characters that occur in the commands and in ArgPool.                   *)

\* Position i of the line lies inside double quotes: an odd number of
\* quote characters precedes it.
InQuotes(line, i) ==
    Cardinality({k \in 1..(i - 1) : line[k] = "\""}) % 2 = 1

\* Position i is a blank that separates words.
IsSeparator(line, i) ==
    /\ IsWhitespace(line[i])
    /\ ~InQuotes(line, i)

\* The words the shell passes to the program: maximal runs without a
\* separating blank, with the quote characters removed.  ok is FALSE for
\* a line with an unterminated quote, which the shell rejects.
ShellWords(line) ==
    LET n == Len(line)
        starts == {i \in 1..n : /\ ~IsSeparator(line, i)
                                /\ (i = 1 \/ IsSeparator(line, i - 1))}
        start(k) == CHOOSE i \in starts :
                        Cardinality({j \in starts : j < i}) = k - 1
        end(i) == CHOOSE j \in i..n :
                      /\ \A m \in i..j : ~IsSeparator(line, m)
                      /\ (j = n \/ IsSeparator(line, j + 1))
        NotQuote(c) == c # "\""
        word(k) == SelectSeq(SubSeq(line, start(k), end(start(k))), NotQuote)
    IN  IF InQuotes(line, n + 1)
        THEN [ok |-> FALSE, words |-> << >>]
        ELSE [ok |-> TRUE, words |-> [k \in 1..Cardinality(starts) |-> word(k)]]

\* The value git receives for -m, <<>> when there is none.
MessageOption(words) ==
    IF \E i \in 1..(Len(words) - 1) : words[i] = <<"-", "m">>
    THEN LET i == CHOOSE j \in 1..(Len(words) - 1) :
                      /\ words[j] = <<"-", "m">>
                      /\ \A k \in 1..(j - 1) : words[k] # <<"-", "m">>
         IN  words[i + 1]
    ELSE << >>

GitSubcommand(words) == IF Len(words) >= 2 THEN words[2] ELSE << >>

\* The exit outcomes (TRUE = status 0) the command can have in the given
\* environment.  A line the shell cannot parse and a commit with an empty
\* message always fail; rev-parse succeeds exactly inside a repository.
ExecOutcomes(command, isRepo) ==
    LET parsed == ShellWords(command)
        sub == GitSubcommand(parsed.words)
    IN  IF ~parsed.ok THEN {FALSE}
        ELSE IF ~isRepo THEN {FALSE}
        ELSE IF sub = <<"r", "e", "v", "-", "p", "a", "r", "s", "e">> THEN {TRUE}
        ELSE IF sub = <<"c", "o", "m", "m", "i", "t">>
                /\ MessageOption(parsed.words) = << >> THEN {FALSE}
        ELSE BOOLEAN

\* What a successful command leaves behind in the repository.
GitApply(r, command) ==
    LET words == ShellWords(command).words
        sub == GitSubcommand(words)
    IN  IF sub = <<"a", "d", "d">> THEN [r EXCEPT !.staged = TRUE]
        ELSE IF sub = <<"c", "o", "m", "m", "i", "t">> THEN
            [r EXCEPT !.staged = FALSE,
                      !.commits = Append(r.commits, MessageOption(words))]
        ELSE IF sub = <<"p", "u", "s", "h">> THEN
            [r EXCEPT !.pushed = Len(r.commits)]
        ELSE r

\* One execSync call as the log records it.
Call(via, command, description, ok, stdout) ==
    [via |-> via, command |-> command, description |-> description,
     ok |-> ok, stdout |-> stdout]

----------------------------------------------------------------------------
(* Pure decisions of the script *)

hasChangesNoTrim(ok, status) ==
    IF ok THEN Len(status) > 0 ELSE FALSE

hasChangesThrowIsDirty(ok, status) ==
    IF ok THEN Len(Trim(status)) > 0 ELSE TRUE

\* hasChanges(): the value returned for an outcome of the status query
hasChanges(ok, status) ==
    IF ok THEN Len(Trim(status)) > 0 ELSE FALSE

stepFailedNever(ok) == FALSE

\* if (!runCommand(command, description)) in the loop of main()
stepFailed(ok) == ~ok

----------------------------------------------------------------------------
(* State machine *)

Init ==
    /\ argv \in { <<NodePath, ScriptPath>> \o a : a \in ArgLists }
    /\ repoValid \in BOOLEAN
    /\ booksExists \in BOOLEAN
    /\ pc = "start"
    /\ exitCode = -1
    /\ out = << >>
    /\ cmdLog = << >>
    /\ booksChecked = FALSE
    /\ hasPendingChanges = << >>
    /\ commitMessage = << >>
    /\ stepIdx = 0
    /\ stepResults = << >>
    /\ repo = [staged |-> FALSE, commits |-> << >>, pushed |-> 0]

\* Help branch of the script: print the usage text, process.exit(0).
ShowHelp ==
    /\ pc = "start"
    /\ helpRequested
    /\ out' = Append(out, "Usage")
    /\ pc' = "exited"
    /\ exitCode' = 0
    /\ UNCHANGED <<argv, repoValid, booksExists, cmdLog, booksChecked,
                   hasPendingChanges, commitMessage, stepIdx, stepResults, repo>>

\* No help flag: main() is called and prints its banner.
MainBegin ==
    /\ pc = "start"
    /\ ~helpRequested
    /\ out' = Append(out, "Book List Update Script")
    /\ pc' = "checkGitRepo"
    /\ UNCHANGED <<argv, repoValid, booksExists, exitCode, cmdLog, booksChecked,
                   hasPendingChanges, commitMessage, stepIdx, stepResults, repo>>

CheckGitRepoNoShortCircuit ==
    /\ pc = "checkGitRepo"
    /\ \E ok \in ExecOutcomes(GitRevParse, repoValid) :
        /\ cmdLog' = Append(cmdLog, Call("checkGitRepo", GitRevParse, "", ok, << >>))
        /\ pc' = "checkBooksFile"
        /\ out' = IF ok THEN out ELSE Append(out, "This is not a Git repository")
        /\ UNCHANGED exitCode
    /\ UNCHANGED <<argv, repoValid, booksExists, booksChecked, hasPendingChanges,
                   commitMessage, stepIdx, stepResults, repo>>

\* checkGitRepo() as the left operand of ||: on failure the right operand
\* is skipped and main() calls process.exit(1).
CheckGitRepo ==
    /\ pc = "checkGitRepo"
    /\ \E ok \in ExecOutcomes(GitRevParse, repoValid) :
        /\ cmdLog' = Append(cmdLog, Call("checkGitRepo", GitRevParse, "", ok, << >>))
        /\ IF ok
           THEN /\ pc' = "checkBooksFile"
                /\ UNCHANGED <<exitCode, out>>
           ELSE /\ out' = Append(out, "This is not a Git repository")
                /\ pc' = "exited"
                /\ exitCode' = 1
    /\ UNCHANGED <<argv, repoValid, booksExists, booksChecked, hasPendingChanges,
                   commitMessage, stepIdx, stepResults, repo>>

CheckBooksFileIgnored ==
    /\ pc = "checkBooksFile"
    /\ booksChecked' = TRUE
    /\ out' = IF booksExists THEN out ELSE Append(out, "books.md file not found")
    /\ pc' = "hasChanges"
    /\ UNCHANGED <<argv, repoValid, booksExists, exitCode, cmdLog, hasPendingChanges,
                   commitMessage, stepIdx, stepResults, repo>>

CheckBooksFileExitZero ==
    /\ pc = "checkBooksFile"
    /\ booksChecked' = TRUE
    /\ IF booksExists
       THEN /\ pc' = "hasChanges"
            /\ UNCHANGED <<exitCode, out>>
       ELSE /\ out' = Append(out, "books.md file not found")
            /\ pc' = "exited"
            /\ exitCode' = 0
    /\ UNCHANGED <<argv, repoValid, booksExists, cmdLog, hasPendingChanges,
                   commitMessage, stepIdx, stepResults, repo>>

\* checkBooksFile() as the right operand of ||.
CheckBooksFile ==
    /\ pc = "checkBooksFile"
    /\ booksChecked' = TRUE
    /\ IF booksExists
       THEN /\ pc' = "hasChanges"
            /\ UNCHANGED <<exitCode, out>>
       ELSE /\ out' = Append(out, "books.md file not found")
            /\ pc' = "exited"
            /\ exitCode' = 1
    /\ UNCHANGED <<argv, repoValid, booksExists, cmdLog, hasPendingChanges,
                   commitMessage, stepIdx, stepResults, repo>>

HasChangesNoReturn ==
    /\ pc = "hasChanges"
    /\ \E ok \in ExecOutcomes(GitStatus, repoValid), status \in StatusOutputs :
        LET result == hasChanges(ok, status)
        IN  /\ cmdLog' = Append(cmdLog, Call("hasChanges", GitStatus, "", ok,
                                             IF ok THEN status ELSE << >>))
            /\ hasPendingChanges' = <<result>>
            /\ out' = IF result THEN out ELSE Append(out, "No changes detected")
            /\ pc' = "getCommitMessage"
            /\ UNCHANGED exitCode
    /\ UNCHANGED <<argv, repoValid, booksExists, booksChecked, commitMessage,
                   stepIdx, stepResults, repo>>

\* if (!hasChanges()) { log(...); return; }  Returning from main() ends the
\* script, so the process exits with status 0.
HasChanges ==
    /\ pc = "hasChanges"
    /\ \E ok \in ExecOutcomes(GitStatus, repoValid), status \in StatusOutputs :
        LET result == hasChanges(ok, status)
        IN  /\ cmdLog' = Append(cmdLog, Call("hasChanges", GitStatus, "", ok,
                                     IF ok THEN status ELSE << >>))
            /\ hasPendingChanges' = <<result>>
            /\ IF result
               THEN /\ pc' = "getCommitMessage"
                    /\ UNCHANGED <<exitCode, out>>
               ELSE /\ out' = Append(out, "No changes detected")
                    /\ pc' = "exited"
                    /\ exitCode' = 0
    /\ UNCHANGED <<argv, repoValid, booksExists, booksChecked, commitMessage,
                   stepIdx, stepResults, repo>>

\* const commitMessage = getCommitMessage(); log(...); the loop starts.
GetCommitMessage ==
    /\ pc = "getCommitMessage"
    /\ \E date \in Dates, time \in Times :
        commitMessage' = getCommitMessage(date, time)
    /\ out' = Append(out, "Commit message")
    /\ stepIdx' = 1
    /\ pc' = "steps"
    /\ UNCHANGED <<argv, repoValid, booksExists, exitCode, cmdLog, booksChecked,
                   hasPendingChanges, stepResults, repo>>

\* One iteration of the loop: runCommand(command, description), then
\* process.exit(1) on failure; after the last step the two success lines.
RunStep ==
    /\ pc = "steps"
    /\ LET step == steps(commitMessage)[stepIdx]
       IN  \E ok \in ExecOutcomes(step.command, repoValid) :
            /\ cmdLog' = Append(cmdLog,
                                Call("runCommand", step.command, step.description,
                                     ok, << >>))
            /\ stepResults' = Append(stepResults, ok)
            /\ repo' = IF ok THEN GitApply(repo, step.command) ELSE repo
            /\ IF stepFailed(ok)
               THEN /\ out' = out \o <<step.description, "Error", "Update failed">>
                    /\ pc' = "exited"
                    /\ exitCode' = 1
                    /\ UNCHANGED stepIdx
               ELSE IF stepIdx = Len(steps(commitMessage))
               THEN /\ out' = out \o <<step.description,
                                       "Book list updated successfully",
                                       "Your changes should be live"
                                     >>
                    /\ pc' = "exited"
                    /\ exitCode' = 0
                    /\ UNCHANGED stepIdx
               ELSE /\ out' = Append(out, step.description)
                    /\ stepIdx' = stepIdx + 1
                    /\ UNCHANGED <<pc, exitCode>>
    /\ UNCHANGED <<argv, repoValid, booksExists, booksChecked, hasPendingChanges,
                   commitMessage>>

Next ==
    \/ ShowHelp
    \/ MainBegin
    \/ CheckGitRepo
    \/ CheckBooksFile
    \/ HasChanges
    \/ GetCommitMessage
    \/ RunStep

Spec == Init /\ [][Next]_vars

----------------------------------------------------------------------------
(* Vocabulary of the properties *)

Exited == pc = "exited"

IsRepoCheck(e) == e.command = GitRevParse
IsStatusQuery(e) == e.command = GitStatus
IsStage(e) == e.description = "Adding changes to staging area"
IsCommit(e) == e.description = "Creating commit"
IsPush(e) == e.description = "Pushing to GitHub"
IsPublish(e) == IsStage(e) \/ IsCommit(e) \/ IsPush(e)

Ran(P(_)) == \E i \in 1..Len(cmdLog) : P(cmdLog[i])

\* The space-joined arguments, computed without the script's own join.
RECURSIVE SpaceJoined(_, _)
SpaceJoined(list, n) ==
    IF n = 0 THEN << >>
    ELSE IF n = 1 THEN list[1]
    ELSE SpaceJoined(list, n - 1) \o <<" ">> \o list[n]

\* The five commands in the order of the full success path.
SuccessPath ==
    <<GitRevParse, GitStatus, GitAdd, GitCommit(commitMessage), GitPush>>

----------------------------------------------------------------------------
(* C1: the commit command runs only after hasChanges() returned true in    *)
(* this run, and the push command runs only after a commit command of this *)
(* run that returned success.                                              *)
C1_CommitAndPushGuarded ==
    \A i \in 1..Len(cmdLog) :
        /\ IsCommit(cmdLog[i]) => hasPendingChanges = <<TRUE>>
        /\ IsPush(cmdLog[i]) =>
               \E j \in 1..(i - 1) : IsCommit(cmdLog[j]) /\ cmdLog[j].ok

C1_Witness ==
    /\ Ran(IsPush)
    /\ Ran(IsCommit)
    /\ hasPendingChanges = <<TRUE>>

(* C2: a failing stage, commit or push is the last command of the run and  *)
(* the process exits non-zero; a commit that succeeded before a failing    *)
(* push stays in the repository and nothing is run to undo it.             *)
C2_FailureStopsTheRun ==
    \A i \in 1..Len(cmdLog) :
        /\ (IsPublish(cmdLog[i]) /\ ~cmdLog[i].ok) =>
               /\ i = Len(cmdLog)
               /\ Exited
               /\ exitCode # 0
        /\ (IsCommit(cmdLog[i]) /\ cmdLog[i].ok) =>
               /\ Len(repo.commits) = 1
               /\ \A j \in (i + 1)..Len(cmdLog) : IsPush(cmdLog[j])

C2_Witness ==
    /\ Exited
    /\ \E i \in 1..Len(cmdLog) : IsCommit(cmdLog[i]) /\ cmdLog[i].ok
    /\ \E i \in 1..Len(cmdLog) : IsPush(cmdLog[i]) /\ ~cmdLog[i].ok
    /\ Len(repo.commits) = 1
    /\ repo.pushed = 0

(* C3 as stated: with books.md absent and no help flag the process exits   *)
(* non-zero and no version-control command at all has been executed.       *)
C3_NoCommandWhenBooksAbsent ==
    (~booksExists /\ ~helpRequested /\ Exited) =>
        /\ exitCode # 0
        /\ cmdLog = << >>

(* C3 amended: with books.md absent and no help flag the process exits     *)
(* non-zero and the only version-control command executed is the           *)
(* repository check, which runs before the file is looked for.             *)
C3_OnlyRepoCheckWhenBooksAbsent ==
    (~booksExists /\ ~helpRequested) =>
        /\ Len(cmdLog) <= 1
        /\ \A i \in 1..Len(cmdLog) : IsRepoCheck(cmdLog[i])
        /\ Exited => (exitCode # 0 /\ Len(cmdLog) = 1)

C3_Witness ==
    /\ ~booksExists
    /\ ~helpRequested
    /\ repoValid
    /\ booksChecked
    /\ Exited

(* C4: when the repository check fails the process exits non-zero, the     *)
(* existence of books.md is never looked at, and the repository check is   *)
(* the only command of the run.                                            *)
C4_NothingAfterFailedRepoCheck ==
    (\E i \in 1..Len(cmdLog) : IsRepoCheck(cmdLog[i]) /\ ~cmdLog[i].ok) =>
        /\ Exited
        /\ exitCode # 0
        /\ Len(cmdLog) = 1
        /\ ~booksChecked
        /\ hasPendingChanges = << >>

C4_Witness ==
    /\ ~repoValid
    /\ booksExists
    /\ Exited
    /\ Len(cmdLog) = 1
    /\ ~cmdLog[1].ok

(* C5: when both preconditions hold and the status query succeeds with     *)
(* output that is empty once trimmed, the process exits with status 0 and  *)
(* no stage, commit or push command is executed.                           *)
C5_CleanTreeExitsZero ==
    \A i \in 1..Len(cmdLog) :
        ( /\ IsStatusQuery(cmdLog[i])
          /\ cmdLog[i].ok
          /\ \A k \in 1..Len(cmdLog[i].stdout) : IsWhitespace(cmdLog[i].stdout[k]) ) =>
            /\ Exited
            /\ exitCode = 0
            /\ ~Ran(IsPublish)

C5_Witness ==
    /\ Exited
    /\ repoValid
    /\ booksExists
    /\ \E i \in 1..Len(cmdLog) :
        /\ IsStatusQuery(cmdLog[i])
        /\ cmdLog[i].ok
        /\ cmdLog[i].stdout = <<"\n">>

(* C6: with --help or -h anywhere among the arguments the script prints    *)
(* the usage text and exits with status 0 without executing any            *)
(* version-control command and without looking for books.md, whatever the  *)
(* repository and the file are.                                            *)
C6_HelpSkipsTheWorkflow ==
    (Includes(args, <<"-", "-", "h", "e", "l", "p">>) \/ Includes(args, <<"-", "h">>)) =>
        /\ pc \in {"start", "exited"}
        /\ cmdLog = << >>
        /\ ~booksChecked
        /\ Exited => (exitCode = 0 /\ out = <<"Usage">>)

C6_Witness ==
    /\ Len(args) = 2
    /\ args[1] = <<"a">>
    /\ args[2] = <<"-", "h">>
    /\ repoValid
    /\ booksExists
    /\ Exited
    /\ out = <<"Usage">>

(* C7: a run without help flag ends with status 0 or 1; 0 exactly when     *)
(* hasChanges() returned false or stage, commit and push all succeeded,    *)
(* 1 exactly when a precondition check or one of the three steps failed.   *)
C7_ExitStatus ==
    (Exited /\ ~helpRequested) =>
        /\ exitCode \in {0, 1}
        /\ exitCode = 0 <=>
               \/ hasPendingChanges = <<FALSE>>
               \/ stepResults = <<TRUE, TRUE, TRUE>>
        /\ exitCode = 1 <=>
               \/ \E i \in 1..Len(cmdLog) : IsRepoCheck(cmdLog[i]) /\ ~cmdLog[i].ok
               \/ booksChecked /\ ~booksExists
               \/ \E i \in 1..Len(stepResults) : ~stepResults[i]

C7_Witness ==
    /\ Exited
    /\ ~helpRequested
    /\ exitCode = 1
    /\ booksChecked
    /\ ~booksExists

(* C8: when the status command itself fails, hasChanges() returns false:   *)
(* the run ends with status 0 and executes no stage, commit or push.       *)
C8_StatusFailureMeansNoChanges ==
    \A i \in 1..Len(cmdLog) :
        (IsStatusQuery(cmdLog[i]) /\ ~cmdLog[i].ok) =>
            /\ hasPendingChanges = <<FALSE>>
            /\ Exited
            /\ exitCode = 0
            /\ i = Len(cmdLog)

C8_Witness ==
    /\ Exited
    /\ \E i \in 1..Len(cmdLog) : IsStatusQuery(cmdLog[i]) /\ ~cmdLog[i].ok

(* C9: no command is executed twice; the commands of a run are always an   *)
(* initial part of: repository check, status query, stage, commit, push,   *)
(* and a run in which all three steps succeeded executed exactly these.    *)
C9_EachCommandOnceInOrder ==
    /\ Len(cmdLog) <= Len(SuccessPath)
    /\ \A i \in 1..Len(cmdLog) : cmdLog[i].command = SuccessPath[i]
    /\ \A i, j \in 1..Len(cmdLog) : i # j => cmdLog[i].command # cmdLog[j].command
    /\ (Exited /\ stepResults = <<TRUE, TRUE, TRUE>>) =>
           Len(cmdLog) = Len(SuccessPath)

C9_Witness ==
    /\ Exited
    /\ exitCode = 0
    /\ Len(cmdLog) = 5
    /\ \A i \in 1..5 : cmdLog[i].ok

(* C10: for one or more arguments the resolved message is the arguments    *)
(* joined by single spaces, and a commit that the commit step created      *)
(* carries exactly that message.                                           *)
C10_CommitCarriesJoinedArguments ==
    (Len(args) >= 1 /\ stepIdx >= 1) =>
        /\ commitMessage = SpaceJoined(args, Len(args))
        /\ \A i \in 1..Len(cmdLog) :
               (IsCommit(cmdLog[i]) /\ cmdLog[i].ok) =>
                   repo.commits = <<SpaceJoined(args, Len(args))>>

====
